---- MODULE Spec2Model ----
(***************************************************************************)
(* Model of the Doc2X v2 protocol client (pdfdeal/Doc2X/ConvertV2.py):     *)
(* the two upload paths, the status poller, the result decoder and the     *)
(* conversion requester, each wrapped by the transport retry policy.       *)
(* A call is modelled attempt by attempt: every execution of a decorated   *)
(* function body is one action, which also contains the decision of the    *)
(* retry wrapper about the result of that attempt.                         *)
(***************************************************************************)
EXTENDS Integers, Sequences, FiniteSets, TLC

VARIABLES
  pc,         \* "idle", "running" (between attempts of a call) or "done"
  op,         \* the operation called
  args,       \* its arguments
  attempts,   \* attempts made by the retry wrapper in this call
  reqs,       \* requests sent in this call, in order
  https,      \* HTTP status each attempt of this call met (-1: nothing sent)
  resp,       \* the answer the last attempt received from the API
  last,       \* the result of the last attempt
  outcome,    \* what the call returned or raised to its caller
  jobStatus,  \* service side: the status of each parse job
  seen,       \* per uid, the first terminal state an earlier poll observed
  stack       \* legacy client: the frames of the running recursion

vars ==
  <<pc, op, args, attempts, reqs, https, resp, last, outcome, jobStatus, seen,
    stack>>

(***************************************************************************)
(* Program constants.                                                      *)
(***************************************************************************)
MB == 1024 * 1024
BigThreshold == 100 * MB
SizeCeiling == 300 * MB
\* number of attempts the retry wrapper allows for one call
MaxAttempts == 2

(***************************************************************************)
(* Inputs.                                                                 *)
(***************************************************************************)
Uids == {"u1", "u2"}
FileSizes == {0, BigThreshold - 1, BigThreshold, SizeCeiling - 1,
              SizeCeiling, SizeCeiling + 1}
Formats == {"md", "tex", "docx", "pdf", ""}

\* HTTP status of a response; 0 stands for "no response" (timeout, network error)
HttpStatus == {0, 200, 400, 429, 500}
S3Status == {0, 200, 204, 403, 429}
\* values of the "code" field of the response envelope; "" is an absent field
Codes == {"success", "parse_concurrency_limit", "parse_error", ""}
\* values of data.progress; -1 is an absent field
ProgressValues == {-1, 0, 40, 150}

\* pages of a status response: the keys present and their values; the text is
\* a sequence of characters
Page1 == [fields |-> {"md", "url", "page_idx", "page_width", "page_height"},
          md |-> <<"a", "\\", "(", "x", "\\", ")", "\\", "[", "y", "\\", "]">>,
          url |-> "http://p/0", page_idx |-> 0, page_width |-> 600,
          page_height |-> 800]
Page2 == [fields |-> {"page_idx"}, md |-> <<"z">>, url |-> "http://p/1",
          page_idx |-> 1, page_width |-> 600, page_height |-> 800]
\* the "data" member of a status response: whether it has the key "result",
\* what kind of JSON value the result is, whether "pages" in result holds (a
\* key of a mapping, an element of a list, a substring of a string), the pages
NoData ==
  [hasResult |-> FALSE, resultType |-> "dict", hasPages |-> FALSE,
   pages |-> <<>>]
\* "data" payloads of a status response
DataPayloads ==
  { NoData,
    [NoData EXCEPT !.hasResult = TRUE],
    [NoData EXCEPT !.hasResult = TRUE, !.hasPages = TRUE],
    [NoData EXCEPT !.hasResult = TRUE, !.hasPages = TRUE, !.pages = <<Page1>>],
    [NoData EXCEPT !.hasResult = TRUE, !.hasPages = TRUE,
                   !.pages = <<Page1, Page2>>] }

\* an answer of the API: HTTP status, whether the body is JSON, the envelope's
\* code, data.uid, data.progress, data.status, the rest of data, data.url
NoResp ==
  [status |-> -1, json |-> FALSE, code |-> "", hasUid |-> FALSE, uid |-> "",
   progress |-> -1, st |-> "", data |-> NoData, url |-> ""]

UploadResponses ==
  {[NoResp EXCEPT !.status = s] : s \in HttpStatus \ {200}}
  \cup {[NoResp EXCEPT !.status = 200, !.json = TRUE, !.code = c,
                       !.hasUid = TRUE, !.uid = u] : c \in Codes, u \in Uids}
  \cup {[NoResp EXCEPT !.status = 200, !.json = TRUE, !.code = "success"]}

\* st is the status of the job on the service; an envelope whose code is no
\* success code carries no progress and no result
StatusResponses(st) ==
  {[NoResp EXCEPT !.status = s] : s \in HttpStatus}
  \cup {[NoResp EXCEPT !.status = 200, !.json = TRUE, !.code = c, !.st = st] :
          c \in Codes \ {"success"}}
  \cup {[NoResp EXCEPT !.status = 200, !.json = TRUE, !.code = "success",
                       !.progress = p, !.st = st, !.data = d] :
          p \in ProgressValues, d \in DataPayloads}

ConvertResponses ==
  {[NoResp EXCEPT !.status = s] : s \in HttpStatus \ {200}}
  \cup {[NoResp EXCEPT !.status = 200, !.json = TRUE, !.code = c,
                       !.st = st, !.url = u] :
          c \in Codes, st \in {"processing", "success", "failed"},
          u \in {"", "http://f/out.zip"}}

(***************************************************************************)
(* The result of one attempt (one execution of a function body): what it   *)
(* returned or raised, and the requests it sent.  s3 is the status the     *)
(* object storage answered with, -1 when nothing was transmitted to it.    *)
(***************************************************************************)
NoResult ==
  [kind |-> "none", err |-> "", msg |-> "", s3 |-> -1, reqs |-> <<>>,
   uid |-> "", progress |-> 0, label |-> "", texts |-> <<>>,
   locations |-> <<>>, url |-> "", flag |-> FALSE, replacements |-> <<>>,
   content |-> <<>>,
   success_files |-> <<>>, fail_files |-> <<>>]

Raise(err, msg, rq) ==
  [NoResult EXCEPT !.kind = "raise", !.err = err, !.msg = msg, !.reqs = rq]

ReturnUid(uid, rq) ==
  [NoResult EXCEPT !.kind = "return", !.uid = uid, !.reqs = rq]

(***************************************************************************)
(* Exception.code_check: the shared classification of the envelope's code. *)
(* The callers pass data.get("code", <whole response>): an absent code     *)
(* hands the response itself to the classification, which is no success    *)
(* code.  The value is the name of the error raised, "" when none is.      *)
(***************************************************************************)
RateLimitCodes == {"parse_concurrency_limit"}
SuccessCodes == {"success"}

code_check(code) ==
  IF code \in SuccessCodes THEN ""
  ELSE IF code \in RateLimitCodes THEN "RateLimit"
  ELSE "RequestError"

(***************************************************************************)
(* upload_pdf: the direct path.  r is the answer of the parse endpoint.    *)
(***************************************************************************)
\* faulty variant of upload_pdf: HTTP 429 is raised as a RequestError
upload_pdf_no_rate_limit(size, readable, r) ==
  IF size >= SizeCeiling
  THEN Raise("RequestError", "parse_file_too_large", <<>>)
  ELSE IF ~readable
  THEN Raise("FileError", "Open file error!", <<>>)
  ELSE LET rq == <<"parse/pdf">> IN
    IF r.status = 0
    THEN Raise("Exception", "timeout", rq)
    ELSE IF r.status = 200
    THEN IF code_check(r.code) # ""
         THEN Raise(code_check(r.code), r.code, rq)
         ELSE IF ~r.hasUid
         THEN Raise("Exception", "KeyError", rq)
         ELSE ReturnUid(r.uid, rq)
    ELSE IF r.status \in {400, 429}
    THEN Raise("RequestError", "bad request", rq)
    ELSE Raise("Exception", "Upload file error!", rq)

upload_pdf(size, readable, r) ==
  IF size >= SizeCeiling
  THEN Raise("RequestError", "parse_file_too_large", <<>>)
  ELSE IF ~readable
  THEN Raise("FileError", "Open file error!", <<>>)
  ELSE LET rq == <<"parse/pdf">> IN
    IF r.status = 0
    THEN Raise("Exception", "timeout", rq)
    ELSE IF r.status = 200
    THEN IF code_check(r.code) # ""
         THEN Raise(code_check(r.code), r.code, rq)
         ELSE IF ~r.hasUid
         THEN Raise("Exception", "KeyError", rq)
         ELSE ReturnUid(r.uid, rq)
    ELSE IF r.status = 429
    THEN Raise("RateLimit", "", rq)
    ELSE IF r.status = 400
    THEN Raise("RequestError", "bad request", rq)
    ELSE Raise("Exception", "Upload file error!", rq)

(***************************************************************************)
(* upload_pdf_big: the staged path.  r is the answer of the pre-upload     *)
(* endpoint, s3 the status the object storage answers the transmission     *)
(* with (0: no answer).                                                    *)
(***************************************************************************)
\* faulty variant of upload_pdf_big: the file is transmitted to the object
\* storage before the envelope's code is looked at
upload_pdf_big_eager_s3(size, readable, r, s3) ==
  IF size < BigThreshold
  THEN Raise("FileError", "PDF file size should be bigger than 100MB!", <<>>)
  ELSE IF ~readable
  THEN Raise("FileError", "Open file error!", <<>>)
  ELSE LET rq == <<"parse/preupload">> IN
    IF r.status = 0
    THEN Raise("Exception", "timeout", rq)
    ELSE IF r.status = 200
    THEN LET rq2 == Append(rq, "s3") IN
         IF ~r.hasUid
         THEN Raise("Exception", "KeyError", rq)
         ELSE IF code_check(r.code) # ""
         THEN [Raise(code_check(r.code), r.code, rq2) EXCEPT !.s3 = s3]
         ELSE IF s3 = 0
         THEN [Raise("Exception", "timeout", rq2) EXCEPT !.s3 = 0]
         ELSE IF s3 = 204
         THEN [ReturnUid(r.uid, rq2) EXCEPT !.s3 = 204]
         ELSE [Raise("RequestError", "s3", rq2) EXCEPT !.s3 = s3]
    ELSE IF r.status = 400
    THEN Raise("RequestError", "bad request", rq)
    ELSE Raise("Exception", "Upload file error!", rq)

\* faulty variant of upload_pdf_big: any 2xx answer of the object storage is
\* taken for the staged success
upload_pdf_big_any_2xx(size, readable, r, s3) ==
  IF size < BigThreshold
  THEN Raise("FileError", "PDF file size should be bigger than 100MB!", <<>>)
  ELSE IF ~readable
  THEN Raise("FileError", "Open file error!", <<>>)
  ELSE LET rq == <<"parse/preupload">> IN
    IF r.status = 0
    THEN Raise("Exception", "timeout", rq)
    ELSE IF r.status = 200
    THEN IF code_check(r.code) # ""
         THEN Raise(code_check(r.code), r.code, rq)
         ELSE IF ~r.hasUid
         THEN Raise("Exception", "KeyError", rq)
         ELSE LET rq2 == Append(rq, "s3") IN
           IF s3 = 0
           THEN [Raise("Exception", "timeout", rq2) EXCEPT !.s3 = 0]
           ELSE IF s3 \in {200, 204}
           THEN [ReturnUid(r.uid, rq2) EXCEPT !.s3 = s3]
           ELSE [Raise("RequestError", "s3", rq2) EXCEPT !.s3 = s3]
    ELSE IF r.status = 400
    THEN Raise("RequestError", "bad request", rq)
    ELSE Raise("Exception", "Upload file error!", rq)

upload_pdf_big(size, readable, r, s3) ==
  IF size < BigThreshold
  THEN Raise("FileError", "PDF file size should be bigger than 100MB!", <<>>)
  ELSE IF ~readable
  THEN Raise("FileError", "Open file error!", <<>>)
  ELSE LET rq == <<"parse/preupload">> IN
    IF r.status = 0
    THEN Raise("Exception", "timeout", rq)
    ELSE IF r.status = 200
    THEN IF code_check(r.code) # ""
         THEN Raise(code_check(r.code), r.code, rq)
         ELSE IF ~r.hasUid
         THEN Raise("Exception", "KeyError", rq)
         ELSE LET rq2 == Append(rq, "s3") IN
           IF s3 = 0
           THEN [Raise("Exception", "timeout", rq2) EXCEPT !.s3 = 0]
           ELSE IF s3 = 204
           THEN [ReturnUid(r.uid, rq2) EXCEPT !.s3 = 204]
           ELSE [Raise("RequestError", "s3", rq2) EXCEPT !.s3 = s3]
    ELSE IF r.status = 400
    THEN Raise("RequestError", "bad request", rq)
    ELSE Raise("Exception", "Upload file error!", rq)

(***************************************************************************)
(* decode_data.  re.sub(r"\\[()]", "$", text) and                          *)
(* re.sub(r"\\[\[\]]", "$$", text): every backslash that is followed by a  *)
(* character of `set` is replaced, with that character, by `repl`,         *)
(* scanning from the left.                                                 *)
(***************************************************************************)
RECURSIVE re_sub(_, _, _)
re_sub(set, repl, text) ==
  IF Len(text) < 2 THEN text
  ELSE IF text[1] = "\\" /\ text[2] \in set
  THEN repl \o re_sub(set, repl, SubSeq(text, 3, Len(text)))
  ELSE <<text[1]>> \o re_sub(set, repl, Tail(text))

\* page.get(key, default)
page_get(page, key, default) ==
  IF key \in page.fields THEN page[key] ELSE default

\* faulty variant of page_text: the bracket delimiters are left as they are
page_text_parens_only(page, convert) ==
  LET text == page_get(page, "md", <<>>) IN
  IF convert THEN re_sub({"(", ")"}, <<"$">>, text) ELSE text

page_text(page, convert) ==
  LET text == page_get(page, "md", <<>>) IN
  IF convert
  THEN re_sub({"[", "]"}, <<"$", "$">>, re_sub({"(", ")"}, <<"$">>, text))
  ELSE text

\* faulty variant of page_location: one missing key defaults all four
page_location_all_or_none(page) ==
  IF {"url", "page_idx", "page_width", "page_height"} \subseteq page.fields
  THEN [url |-> page.url, page_idx |-> page.page_idx,
        page_width |-> page.page_width, page_height |-> page.page_height]
  ELSE [url |-> "", page_idx |-> 0, page_width |-> 0, page_height |-> 0]

page_location(page) ==
  [url |-> page_get(page, "url", ""),
   page_idx |-> page_get(page, "page_idx", 0),
   page_width |-> page_get(page, "page_width", 0),
   page_height |-> page_get(page, "page_height", 0)]

\* the error the test at the head of decode_data ends in, "" when none:
\* "pages" not in data["result"] raises TypeError for a result that is no
\* container, and data["result"]["pages"] raises it for a list or a string
\* that holds "pages"
decode_error(data) ==
  IF ~data.hasResult THEN ""
  ELSE IF data.resultType \in {"null", "int"} THEN "TypeError"
  ELSE IF ~data.hasPages THEN ""
  ELSE IF data.resultType # "dict" THEN "TypeError"
  ELSE ""

\* the pair <<texts, locations>> decode_data returns when it raises nothing
decode_data(data, convert) ==
  IF ~data.hasResult \/ ~data.hasPages
  THEN << <<>>, <<>> >>
  ELSE << [i \in 1..Len(data.pages) |-> page_text(data.pages[i], convert)],
          [i \in 1..Len(data.pages) |-> page_location(data.pages[i])] >>

(***************************************************************************)
(* uid_status: one poll.  r is the answer of the status endpoint.          *)
(***************************************************************************)
Snapshot(progress, label, decoded) ==
  [NoResult EXCEPT !.kind = "return", !.progress = progress, !.label = label,
                   !.texts = decoded[1], !.locations = decoded[2]]

Empty == << <<>>, <<>> >>

\* faulty variants of uid_status_branch: the properties below tell each from it
branch_failed_generic(progress, status, data, convert) ==
  IF status = "processing" THEN Snapshot(progress, "Processing file", Empty)
  ELSE IF status = "success"
  THEN Snapshot(100, "Success", decode_data(data, convert))
  ELSE IF status = "failed"
  THEN Raise("Exception", "Failed to deal with file!", <<>>)
  ELSE Snapshot(progress, status, Empty)

branch_failed_unhandled(progress, status, data, convert) ==
  IF status = "processing" THEN Snapshot(progress, "Processing file", Empty)
  ELSE IF status = "success"
  THEN Snapshot(100, "Success", decode_data(data, convert))
  ELSE Snapshot(progress, status, Empty)

branch_progress_passthrough(progress, status, data, convert) ==
  IF status = "processing" THEN Snapshot(progress, "Processing file", Empty)
  ELSE IF status = "success"
  THEN Snapshot(progress, "Success", decode_data(data, convert))
  ELSE IF status = "failed"
  THEN Raise("RequestError", "Failed to deal with file!", <<>>)
  ELSE Snapshot(progress, status, Empty)

branch_always_decodes(progress, status, data, convert) ==
  IF status = "processing"
  THEN Snapshot(progress, "Processing file", decode_data(data, convert))
  ELSE IF status = "success"
  THEN Snapshot(100, "Success", decode_data(data, convert))
  ELSE IF status = "failed"
  THEN Raise("RequestError", "Failed to deal with file!", <<>>)
  ELSE Snapshot(progress, status, Empty)

\* the dispatch on data.status
uid_status_branch(progress, status, data, convert) ==
  IF status = "processing" THEN Snapshot(progress, "Processing file", Empty)
  ELSE IF status = "success"
  THEN IF decode_error(data) # ""
       THEN Raise("Exception", decode_error(data), <<>>)
       ELSE Snapshot(100, "Success", decode_data(data, convert))
  ELSE IF status = "failed"
  THEN Raise("RequestError", "Failed to deal with file!", <<>>)
  ELSE Snapshot(progress, status, Empty)

uid_status(uid, convert, r) ==
  LET rq == <<"parse/status">> IN
  IF r.status = 0
  THEN Raise("Exception", "timeout", rq)
  ELSE IF r.status # 200
  THEN Raise("Exception", "Get status error!", rq)
  ELSE IF ~r.json
  THEN Raise("Exception", "Get status error with", rq)
  ELSE IF code_check(r.code) # ""
  THEN Raise(code_check(r.code), r.code, rq)
  ELSE LET progress == IF r.progress = -1 THEN 0 ELSE r.progress
           status == r.st
       IN [uid_status_branch(progress, status, r.data, convert)
             EXCEPT !.reqs = rq]

(***************************************************************************)
(* convert_parse and get_convert_result.  r is the answer of the           *)
(* conversion endpoint.                                                    *)
(***************************************************************************)
\* faulty variant of convert_formats: no format is rejected
formats_unchecked == {"md", "tex", "docx", "pdf", ""}

convert_formats == {"md", "tex", "docx"}

\* faulty variant of convert_parse: the format error is a generic Exception
convert_parse_generic_error(uid, to, r) ==
  IF to \notin convert_formats
  THEN Raise("Exception", "Invalid export format.", <<>>)
  ELSE LET rq == <<"convert/parse">> IN
    IF r.status = 0
    THEN Raise("Exception", "timeout", rq)
    ELSE IF r.status # 200
    THEN Raise("Exception", "Conversion request failed", rq)
    ELSE IF r.st = "processing"
    THEN [NoResult EXCEPT !.kind = "return", !.reqs = rq,
                          !.label = "Processing", !.url = ""]
    ELSE IF r.st = "success"
    THEN [NoResult EXCEPT !.kind = "return", !.reqs = rq,
                          !.label = "Success", !.url = r.url]
    ELSE [Raise("RequestError", "Conversion file failed", rq)
            EXCEPT !.uid = uid]

convert_parse(uid, to, r) ==
  IF to \notin convert_formats
  THEN Raise("ValueError", "Invalid export format.", <<>>)
  ELSE LET rq == <<"convert/parse">> IN
    IF r.status = 0
    THEN Raise("Exception", "timeout", rq)
    ELSE IF r.status # 200
    THEN Raise("Exception", "Conversion request failed", rq)
    ELSE IF r.st = "processing"
    THEN [NoResult EXCEPT !.kind = "return", !.reqs = rq,
                          !.label = "Processing", !.url = ""]
    ELSE IF r.st = "success"
    THEN [NoResult EXCEPT !.kind = "return", !.reqs = rq,
                          !.label = "Success", !.url = r.url]
    ELSE [Raise("RequestError", "Conversion file failed", rq)
            EXCEPT !.uid = uid]

get_convert_result(uid, r) ==
  LET rq == <<"convert/parse/result">> IN
  IF r.status = 0
  THEN Raise("Exception", "timeout", rq)
  ELSE IF r.status # 200
  THEN Raise("Exception", "Get conversion result failed", rq)
  ELSE IF r.st = "processing"
  THEN [NoResult EXCEPT !.kind = "return", !.reqs = rq,
                        !.label = "Processing", !.url = ""]
  ELSE IF r.st = "success"
  THEN [NoResult EXCEPT !.kind = "return", !.reqs = rq,
                        !.label = "Success", !.url = r.url]
  ELSE [Raise("RequestError", "Get conversion result failed", rq)
          EXCEPT !.uid = uid]

(***************************************************************************)
(* Exception.async_retry: the transport retry policy.  It retries the      *)
(* rate-limit and transient classifications up to MaxAttempts attempts and *)
(* raises every other error on the attempt that produced it.  res is the   *)
(* result of the attempt, n the number of attempts made, it included.      *)
(***************************************************************************)
Retryable == {"RateLimit", "Exception"}

\* faulty variant of async_retry: one attempt more than the budget
retry_one_too_many(res, n) ==
  IF res.kind = "return" THEN "return"
  ELSE IF res.err \notin Retryable THEN "raise"
  ELSE IF n <= MaxAttempts THEN "retry"
  ELSE "exhausted"

async_retry(res, n) ==
  IF res.kind = "return" THEN "return"
  ELSE IF res.err \notin Retryable THEN "raise"
  ELSE IF n < MaxAttempts THEN "retry"
  ELSE "exhausted"

(***************************************************************************)
(* The state machine.                                                      *)
(***************************************************************************)
NoArgs ==
  [size |-> 0, readable |-> TRUE, uid |-> "", to |-> "", convert |-> FALSE,
   data |-> NoData, replace |-> "local", links |-> <<>>, mdfiles |-> <<>>]

Init ==
  /\ pc = "idle"
  /\ op = ""
  /\ args = NoArgs
  /\ attempts = 0
  /\ reqs = <<>>
  /\ https = <<>>
  /\ resp = NoResp
  /\ last = NoResult
  /\ outcome = NoResult
  /\ jobStatus = [u \in Uids |-> "pending"]
  /\ seen = [u \in Uids |-> "none"]
  /\ stack = <<>>

\* a caller invokes operation o with arguments a
Begin(o, a) ==
  /\ pc' = "running"
  /\ op' = o
  /\ args' = a
  /\ UNCHANGED <<attempts, reqs, https, resp, last, outcome, jobStatus, seen,
               stack>>

Call_upload_pdf ==
  /\ pc = "idle"
  /\ \E size \in FileSizes, readable \in BOOLEAN :
       Begin("upload_pdf", [NoArgs EXCEPT !.size = size, !.readable = readable])

Call_upload_pdf_big ==
  /\ pc = "idle"
  /\ \E size \in FileSizes, readable \in BOOLEAN :
       Begin("upload_pdf_big", [NoArgs EXCEPT !.size = size, !.readable = readable])

Call_uid_status ==
  /\ pc = "idle"
  /\ \E uid \in Uids, convert \in BOOLEAN :
       Begin("uid_status", [NoArgs EXCEPT !.uid = uid, !.convert = convert])

Call_convert_parse ==
  /\ pc = "idle"
  /\ \E uid \in Uids, to \in Formats :
       Begin("convert_parse", [NoArgs EXCEPT !.uid = uid, !.to = to])

Call_get_convert_result ==
  /\ pc = "idle"
  /\ \E uid \in Uids :
       Begin("get_convert_result", [NoArgs EXCEPT !.uid = uid])

\* one attempt met answer r and ended with res: the wrapper returns, raises
\* or goes round again
Attempt(res, r) ==
  LET n == attempts + 1
      d == async_retry(res, n)
      met == IF res.reqs = <<>> THEN NoResp ELSE r
  IN
  /\ attempts' = n
  /\ last' = res
  /\ resp' = met
  /\ reqs' = reqs \o res.reqs
  /\ https' = Append(https, met.status)
  /\ pc' = IF d = "retry" THEN "running" ELSE "done"
  /\ outcome' = IF d = "retry" THEN NoResult
                ELSE IF d = "exhausted"
                THEN [res EXCEPT !.err = "RetryExhausted", !.msg = res.err]
                ELSE res
  /\ UNCHANGED <<op, args, jobStatus, seen, stack>>

Attempt_upload_pdf ==
  /\ pc = "running" /\ op = "upload_pdf"
  /\ \E r \in UploadResponses :
       Attempt(upload_pdf(args.size, args.readable, r), r)

Attempt_upload_pdf_big ==
  /\ pc = "running" /\ op = "upload_pdf_big"
  /\ \E r \in UploadResponses, s3 \in S3Status :
       Attempt(upload_pdf_big(args.size, args.readable, r, s3), r)

Attempt_uid_status ==
  /\ pc = "running" /\ op = "uid_status"
  /\ \E r \in StatusResponses(jobStatus[args.uid]) :
       Attempt(uid_status(args.uid, args.convert, r), r)

Attempt_convert_parse ==
  /\ pc = "running" /\ op = "convert_parse"
  /\ \E r \in ConvertResponses :
       Attempt(convert_parse(args.uid, args.to, r), r)

Attempt_get_convert_result ==
  /\ pc = "running" /\ op = "get_convert_result"
  /\ \E r \in ConvertResponses :
       Attempt(get_convert_result(args.uid, r), r)

\* the attempt read data.status from a well-formed answer with a success code
StatusRead ==
  /\ op = "uid_status" /\ attempts > 0
  /\ resp.status = 200 /\ resp.json /\ code_check(resp.code) = ""

\* the terminal state of the job, if the last attempt observed one
Observed ==
  IF StatusRead /\ resp.st \in {"success", "failed"} THEN resp.st ELSE "none"

\* the caller takes the outcome and the call's frame is gone; the caller
\* remembers the first terminal state a poll of the uid observed
Finish ==
  /\ pc = "done"
  /\ pc' = "idle"
  /\ seen' = IF op = "uid_status" /\ seen[args.uid] = "none"
             THEN [seen EXCEPT ![args.uid] = Observed]
             ELSE seen
  /\ op' = ""
  /\ args' = NoArgs
  /\ attempts' = 0
  /\ reqs' = <<>>
  /\ https' = <<>>
  /\ resp' = NoResp
  /\ last' = NoResult
  /\ outcome' = NoResult
  /\ stack' = <<>>
  /\ UNCHANGED jobStatus

\* the service works on a job: pending -> processing -> (success | failed)
ServiceStep ==
  \E u \in Uids, s \in {"processing", "success", "failed"} :
    /\ jobStatus[u] = IF s = "processing" THEN "pending" ELSE "processing"
    /\ jobStatus' = [jobStatus EXCEPT ![u] = s]
    /\ UNCHANGED <<pc, op, args, attempts, reqs, https, resp, last, outcome, seen,
                 stack>>

Attempts ==
  \/ Attempt_upload_pdf
  \/ Attempt_upload_pdf_big
  \/ Attempt_uid_status
  \/ Attempt_convert_parse
  \/ Attempt_get_convert_result

Next ==
  \/ Call_upload_pdf
  \/ Call_upload_pdf_big
  \/ Call_uid_status
  \/ Call_convert_parse
  \/ Call_get_convert_result
  \/ Attempt_upload_pdf
  \/ Attempt_upload_pdf_big
  \/ Attempt_uid_status
  \/ Attempt_convert_parse
  \/ Attempt_get_convert_result
  \/ Finish
  \/ ServiceStep

Spec == Init /\ [][Next]_vars

(***************************************************************************)
(* The calls alone, against a service whose jobs stand in one state: a      *)
(* running call is scheduled, so its next attempt eventually happens (every *)
(* request is bounded by its timeout).                                     *)
(***************************************************************************)
ServiceStates == {"pending", "processing", "success", "failed"}

InitCalls ==
  /\ pc = "idle"
  /\ op = ""
  /\ args = NoArgs
  /\ attempts = 0
  /\ reqs = <<>>
  /\ https = <<>>
  /\ resp = NoResp
  /\ last = NoResult
  /\ outcome = NoResult
  /\ \E s \in ServiceStates : jobStatus = [u \in Uids |-> s]
  /\ seen = [u \in Uids |-> "none"]
  /\ stack = <<>>

NextCalls ==
  \/ Call_upload_pdf
  \/ Call_upload_pdf_big
  \/ Call_uid_status
  \/ Call_convert_parse
  \/ Call_get_convert_result
  \/ Attempt_upload_pdf
  \/ Attempt_upload_pdf_big
  \/ Attempt_uid_status
  \/ Attempt_convert_parse
  \/ Attempt_get_convert_result
  \/ Finish

FairSpec == InitCalls /\ [][NextCalls]_vars /\ WF_vars(Attempts)

(***************************************************************************)
(* FileTools/extract_img.py.  A markdown file is modelled by the links     *)
(* get_imgcdnlink_list finds in it, in the order found.  A link says       *)
(* whether its address starts with "http", how the server answers the      *)
(* download ("ok", or "error" for a failed transfer) and whether the       *)
(* answer carries a Content-Type header.                                   *)
(***************************************************************************)
MaxLinks == 3
MaxFiles == 2

\* text is the matched markup (origin_text); the same markup can stand in a
\* file more than once, and its address is the same each time
Links ==
  { [text |-> t, http |-> TRUE, answer |-> a[1], ctype |-> a[2]] :
      t \in {"![](http://a/1)", "![](http://a/2)"},
      a \in {<<"ok", TRUE>>, <<"ok", FALSE>>, <<"error", TRUE>>} }
    \cup { [text |-> "![](img/3.png)", http |-> FALSE, answer |-> "ok",
            ctype |-> TRUE] }

\* the text that replaces imglist[i]: it names the file the i-th download
\* was saved to
Replacement(i) == <<"<img0>", "<img1>", "<img2>", "<img3>", "<img4>">>[i]

\* content.replace(old, new) on the file's links
str_replace(content, old, new) ==
  [k \in 1..Len(content) |-> IF content[k] = old THEN new ELSE content[k]]

\* for old, new in replacements: content = content.replace(old, new)
RECURSIVE replace_each(_, _, _)
replace_each(content, links, replacements) ==
  IF replacements = <<>> THEN content
  ELSE replace_each(str_replace(content, links[Head(replacements)].text,
                                Replacement(Head(replacements))),
                    links, Tail(replacements))

LinkLists == UNION { [1..n -> Links] : n \in 0..MaxLinks }

\* the orders in which n submitted futures can complete
Orders(n) == { p \in [1..n -> 1..n] : \A i, j \in 1..n : p[i] = p[j] => i = j }

ReplaceArgs == {"local", "callable", "other"}

\* Exception.nomal_retry: the decorated function is run again after an error;
\* what the call gives is what its last run returned or raised
nomal_retry(res) == res

\* one run of download_img_from_url: the extension it returns, or the error
\* it raises.  Without a Content-Type header the file is written and
\* `return extension` reads a name that was never bound.
download_img_from_url(link) ==
  IF link.answer # "ok" THEN "HTTPError"
  ELSE IF ~link.ctype THEN "UnboundLocalError"
  ELSE "ext"

\* download_image(i, imgurl, ...): 0 stands for None, i for the pair
\* (imglist[i], replacement)
download_image(i, link) ==
  IF ~link.http THEN 0
  ELSE IF nomal_retry(download_img_from_url(link)) # "ext" THEN 0
  ELSE i

ToolRaise(err) == [NoResult EXCEPT !.kind = "raise", !.err = err]

\* faulty variant of md_replace_imgs: one replaced link is enough for True
md_replace_imgs_any_replaced(replace, readable, links, order) ==
  IF replace \notin {"local", "callable"} THEN ToolRaise("ValueError")
  ELSE IF ~readable THEN ToolRaise("OSError")
  ELSE IF Len(links) = 0
  THEN [NoResult EXCEPT !.kind = "return", !.flag = TRUE]
  ELSE LET results == [k \in 1..Len(links) |->
                         download_image(order[k], links[order[k]])]
           replacements == SelectSeq(results, LAMBDA r : r # 0)
       IN [NoResult EXCEPT
             !.kind = "return",
             !.replacements = replacements,
             !.content = replace_each([k \in 1..Len(links) |-> links[k].text],
                                      links, replacements),
             !.flag = (Len(replacements) > 0)]

\* order is the order in which the downloads complete
md_replace_imgs(replace, readable, links, order) ==
  IF replace \notin {"local", "callable"} THEN ToolRaise("ValueError")
  ELSE IF ~readable THEN ToolRaise("OSError")
  ELSE IF Len(links) = 0
  THEN [NoResult EXCEPT !.kind = "return", !.flag = TRUE]
  ELSE LET results == [k \in 1..Len(links) |->
                         download_image(order[k], links[order[k]])]
           replacements == SelectSeq(results, LAMBDA r : r # 0)
       IN [NoResult EXCEPT
             !.kind = "return",
             !.replacements = replacements,
             !.content = replace_each([k \in 1..Len(links) |-> links[k].text],
                                      links, replacements),
             !.flag = ~(Len(replacements) < Len(links))]

\* the markdown files gen_folder_list can find under the path
MdFiles ==
  { [path |-> "a.md", readable |-> TRUE, links |-> <<>>],
    [path |-> "b.md", readable |-> TRUE,
     links |-> <<[text |-> "![](http://a/1)", http |-> TRUE, answer |-> "ok",
                  ctype |-> TRUE]>>],
    [path |-> "c.md", readable |-> TRUE,
     links |-> <<[text |-> "![](http://a/1)", http |-> TRUE, answer |-> "ok",
                  ctype |-> TRUE],
                 [text |-> "![](http://a/2)", http |-> TRUE,
                  answer |-> "error", ctype |-> TRUE]>>],
    [path |-> "d.md", readable |-> FALSE, links |-> <<>>] }

MdFileLists ==
  { q \in UNION { [1..n -> MdFiles] : n \in 0..MaxFiles } :
      \A i, j \in 1..Len(q) : q[i] = q[j] => i = j }

\* process_mdfile: the error md_replace_imgs raised, "" for None; the bool
\* md_replace_imgs returns is dropped
process_mdfile(mdfile, replace) ==
  LET r == md_replace_imgs(replace, mdfile.readable, mdfile.links,
                           [k \in 1..Len(mdfile.links) |-> k])
  IN IF r.kind = "raise" THEN r.err ELSE ""

\* order is the order in which the files complete
mds_replace_imgs(replace, mdfiles, order) ==
  IF replace \notin {"local", "callable"} THEN ToolRaise("ValueError")
  ELSE IF Len(mdfiles) = 0
  THEN [NoResult EXCEPT !.kind = "return", !.flag = TRUE]
  ELSE LET done == [k \in 1..Len(mdfiles) |-> mdfiles[order[k]]]
           ok == SelectSeq(done, LAMBDA f : process_mdfile(f, replace) = "")
           bad == SelectSeq(done, LAMBDA f : process_mdfile(f, replace) # "")
           Fail_flag == Len(bad) = 0
       IN [NoResult EXCEPT
             !.kind = "return",
             !.success_files = [k \in 1..Len(ok) |-> ok[k].path],
             !.fail_files = [k \in 1..Len(bad) |->
                               [error |-> process_mdfile(bad[k], replace),
                                path |-> bad[k].path]],
             !.flag = IF Fail_flag = FALSE THEN TRUE ELSE FALSE]

(***************************************************************************)
(* Inputs of decode_data called on its own.                                *)
(***************************************************************************)
MaxTextLen == 4
MaxPages == 2

Chars == {"\\", "(", ")", "[", "]", "a"}
Texts == UNION { [1..n -> Chars] : n \in 0..MaxTextLen }

PageFields == {"md", "url", "page_idx", "page_width", "page_height"}
PageUrls == <<"http://p/1", "http://p/2", "http://p/3", "http://p/4">>

\* the k-th page of an array, carrying the keys S
FieldPage(S, k) ==
  [fields |-> S,
   md |-> [j \in 1..k |-> "a"] \o <<"\\", "(", "\\", "[">>,
   url |-> PageUrls[((k - 1) % Len(PageUrls)) + 1],
   page_idx |-> k, page_width |-> 600 + k, page_height |-> 800 + k]

TextPage(t) == [FieldPage(PageFields, 1) EXCEPT !.md = t]

PageArrays ==
  { [k \in 1..Len(f) |-> FieldPage(f[k], k)] :
      f \in UNION { [1..n -> SUBSET PageFields] : n \in 0..MaxPages } }
    \cup { <<TextPage(t)>> : t \in Texts }

ResultTypes == {"dict", "null", "int", "list", "str"}

\* answers without the result/pages structure
Malformed ==
  { NoData }
    \cup { [NoData EXCEPT !.hasResult = TRUE, !.resultType = ty] :
             ty \in ResultTypes }
    \cup { [NoData EXCEPT !.hasResult = TRUE, !.resultType = ty,
                          !.hasPages = TRUE] : ty \in {"list", "str"} }

DecodeInputs ==
  Malformed \cup { [NoData EXCEPT !.hasResult = TRUE, !.hasPages = TRUE,
                                  !.pages = pages] : pages \in PageArrays }

(***************************************************************************)
(* The tools called on their own: decode_data and the two image rewriters. *)
(***************************************************************************)
Call_decode_data ==
  /\ pc = "idle"
  /\ \E data \in DecodeInputs, convert \in BOOLEAN :
       Begin("decode_data", [NoArgs EXCEPT !.data = data, !.convert = convert])

Call_md_replace_imgs ==
  /\ pc = "idle"
  /\ \E replace \in ReplaceArgs, readable \in BOOLEAN, links \in LinkLists :
       Begin("md_replace_imgs",
             [NoArgs EXCEPT !.replace = replace, !.readable = readable,
                            !.links = links])

Call_mds_replace_imgs ==
  /\ pc = "idle"
  /\ \E replace \in ReplaceArgs, mdfiles \in MdFileLists :
       Begin("mds_replace_imgs",
             [NoArgs EXCEPT !.replace = replace, !.mdfiles = mdfiles])

\* a tool runs to its end: res is what it returns or raises
Run(res) ==
  /\ pc' = "done"
  /\ attempts' = 1
  /\ last' = res
  /\ outcome' = res
  /\ UNCHANGED <<op, args, reqs, https, resp, jobStatus, seen, stack>>

Run_decode_data ==
  /\ pc = "running" /\ op = "decode_data"
  /\ Run(IF decode_error(args.data) # ""
         THEN ToolRaise(decode_error(args.data))
         ELSE LET decoded == decode_data(args.data, args.convert)
              IN [NoResult EXCEPT !.kind = "return", !.texts = decoded[1],
                                  !.locations = decoded[2]])

Run_md_replace_imgs ==
  /\ pc = "running" /\ op = "md_replace_imgs"
  /\ \E order \in Orders(Len(args.links)) :
       Run(md_replace_imgs(args.replace, args.readable, args.links, order))

Run_mds_replace_imgs ==
  /\ pc = "running" /\ op = "mds_replace_imgs"
  /\ \E order \in Orders(Len(args.mdfiles)) :
       Run(mds_replace_imgs(args.replace, args.mdfiles, order))

NextTools ==
  \/ Call_decode_data
  \/ Call_md_replace_imgs
  \/ Call_mds_replace_imgs
  \/ Run_decode_data
  \/ Run_md_replace_imgs
  \/ Run_mds_replace_imgs
  \/ Finish

ToolsSpec == Init /\ [][NextTools]_vars

(***************************************************************************)
(* doc2x.py, the legacy synchronous client.  uuid2file, pic2file and       *)
(* pdf2file answer HTTP 429 by sleeping and calling themselves: every      *)
(* retry is one more frame on the interpreter's stack.  A frame holds the  *)
(* arguments its invocation was called with.  Python values are written   *)
(* as strings: "True" and "False" are the booleans, "true" and "false"     *)
(* the strings the functions put on the wire.                              *)
(***************************************************************************)
\* the frames the interpreter lets the recursion nest (the room left under
\* sys.getrecursionlimit()), scaled down
RecursionLimit == 3

LegacyOps == {"uuid2file", "pic2file", "pdf2file"}
ExportFormats == {"md", "md_dollar", "latex", "docx"}
OutputFormats == {"text", "md", "docx", "pdf"}
PyBools == {"True", "False"}

\* bool(v) of a Python value
truthy(v) == v \notin {"False", "None", ""}

\* an answer of the legacy API: the status of the request, whether the body
\* of a 200 answer carries events, the status get_limit meets, whether the
\* downloaded archive unpacks
OtherAnswer(st) == [status |-> st, body |-> "", limit |-> 200, unzip |-> TRUE]
LegacyAnswers ==
  { OtherAnswer(st) : st \in {0, 429, 500} }
    \cup { [status |-> 200, body |-> b, limit |-> l, unzip |-> z] :
             b \in {"events", "empty"}, l \in {200, 500}, z \in BOOLEAN }

NoFrame == [fn |-> "", output_format |-> "", flag |-> ""]

\* what one invocation does: returns, raises, or calls (frame is the callee's)
LegacyResult ==
  [kind |-> "none", err |-> "", msg |-> "", value |-> "", reqs |-> <<>>,
   frame |-> NoFrame]
LReturn(value, rq) ==
  [LegacyResult EXCEPT !.kind = "return", !.value = value, !.reqs = rq]
LRaise(err, rq) == [LegacyResult EXCEPT !.kind = "raise", !.err = err, !.reqs = rq]
LCall(frame, rq) ==
  [LegacyResult EXCEPT !.kind = "call", !.frame = frame, !.reqs = rq]

Request(fn, url, param) == [fn |-> fn, url |-> url, param |-> param]
LimitRequest == Request("get_limit", "platform/limit", "")

\* one invocation of uuid2file with the arguments of frame f, answered by a
uuid2file(f, a) ==
  LET rq == <<Request("uuid2file", "export", f.output_format)>>
      output_format == IF f.output_format = "docx" THEN "docx" ELSE "zip"
  IN IF a.status = 0 THEN LRaise("ConnectionError", rq)
     ELSE IF a.status = 200
     THEN IF output_format = "zip" /\ ~a.unzip THEN LRaise("RuntimeError", rq)
          ELSE IF a.limit # 200
          THEN LRaise("RuntimeError", Append(rq, LimitRequest))
          ELSE LReturn(output_format, Append(rq, LimitRequest))
     ELSE IF a.status = 429
     THEN LCall([fn |-> "uuid2file", output_format |-> output_format,
                 flag |-> ""], rq)
     ELSE LRaise("RuntimeError", rq)

\* the shared body of pic2file and pdf2file: url is the endpoint, the flag is
\* img_correction or ocr
platform2file(fn, url, f, readable, a) ==
  LET flag == IF truthy(f.flag) THEN "true" ELSE "false"
      rq == <<Request(fn, url, flag)>>
  IN IF ~readable THEN LRaise("OSError", <<>>)
     ELSE IF a.status = 0 THEN LRaise("ConnectionError", rq)
     ELSE IF a.status = 429
     THEN LCall([fn |-> fn, output_format |-> f.output_format, flag |-> flag],
                rq)
     ELSE IF a.status # 200 THEN LRaise("RuntimeError", rq)
     ELSE IF a.body = "empty" THEN LRaise("IndexError", rq)
     ELSE IF f.output_format = "text"
     THEN IF a.limit # 200
          THEN LRaise("RuntimeError", Append(rq, LimitRequest))
          ELSE LReturn("text", Append(rq, LimitRequest))
     ELSE IF f.output_format \notin {"md", "latex", "docx", "md_dollar"}
     THEN LRaise("ValueError", rq)
     ELSE LCall([fn |-> "uuid2file", output_format |-> f.output_format,
                 flag |-> ""], rq)

pic2file(f, readable, a) == platform2file("pic2file", "platform/img", f, readable, a)

pdf2file(f, readable, a) == platform2file("pdf2file", "platform/pdf", f, readable, a)

\* a caller invokes legacy function o: its frame is the first of the stack
LegacyBegin(o, format, flag, readable) ==
  /\ pc' = "running"
  /\ op' = o
  /\ args' = [NoArgs EXCEPT !.to = format, !.replace = flag,
                            !.readable = readable]
  /\ stack' = <<[fn |-> o, output_format |-> format, flag |-> flag]>>
  /\ UNCHANGED <<attempts, reqs, https, resp, last, outcome, jobStatus, seen>>

Call_uuid2file ==
  /\ pc = "idle"
  /\ \E format \in ExportFormats : LegacyBegin("uuid2file", format, "", TRUE)

Call_pic2file ==
  /\ pc = "idle"
  /\ \E format \in OutputFormats, flag \in PyBools, readable \in BOOLEAN :
       LegacyBegin("pic2file", format, flag, readable)

Call_pdf2file ==
  /\ pc = "idle"
  /\ \E format \in OutputFormats, flag \in PyBools, readable \in BOOLEAN :
       LegacyBegin("pdf2file", format, flag, readable)

Top == stack[Len(stack)]

\* the invocation on top of the stack ran and did res on answer a.  A call
\* nests one more frame, or raises RecursionError when the stack is full.
\* What uuid2file raises under pic2file or pdf2file is caught there and
\* raised again as RuntimeError.
Invoke(res, a) ==
  LET full == res.kind = "call" /\ Len(stack) >= RecursionLimit
      caught == /\ stack[1].fn # "uuid2file"
                /\ \/ Top.fn = "uuid2file"
                   \/ res.kind = "call" /\ res.frame.fn = "uuid2file"
      raised == IF full
                THEN [res EXCEPT !.kind = "raise", !.err = "RecursionError"]
                ELSE res
      final == IF raised.kind = "raise" /\ caught
               THEN [raised EXCEPT !.err = "RuntimeError", !.msg = raised.err]
               ELSE raised
  IN
  /\ attempts' = attempts + 1
  /\ last' = final
  /\ resp' = IF res.reqs = <<>> THEN OtherAnswer(-1) ELSE a
  /\ reqs' = reqs \o res.reqs
  /\ https' = Append(https, IF res.reqs = <<>> THEN -1 ELSE a.status)
  /\ stack' = IF final.kind = "call" THEN Append(stack, final.frame) ELSE stack
  /\ pc' = IF final.kind = "call" THEN "running" ELSE "done"
  /\ outcome' = IF final.kind = "call" THEN NoResult ELSE final
  /\ UNCHANGED <<op, args, jobStatus, seen>>

Invoke_uuid2file ==
  /\ pc = "running" /\ op \in LegacyOps /\ Top.fn = "uuid2file"
  /\ \E a \in LegacyAnswers : Invoke(uuid2file(Top, a), a)

Invoke_pic2file ==
  /\ pc = "running" /\ op \in LegacyOps /\ Top.fn = "pic2file"
  /\ \E a \in LegacyAnswers : Invoke(pic2file(Top, args.readable, a), a)

Invoke_pdf2file ==
  /\ pc = "running" /\ op \in LegacyOps /\ Top.fn = "pdf2file"
  /\ \E a \in LegacyAnswers : Invoke(pdf2file(Top, args.readable, a), a)

NextLegacy ==
  \/ Call_uuid2file
  \/ Call_pic2file
  \/ Call_pdf2file
  \/ Invoke_uuid2file
  \/ Invoke_pic2file
  \/ Invoke_pdf2file
  \/ Finish

LegacySpec == Init /\ [][NextLegacy]_vars

(***************************************************************************)
(* Properties.                                                             *)
(***************************************************************************)
Range(q) == {q[i] : i \in 1..Len(q)}

UploadDone(o) == pc = "done" /\ op = o

\* C1: upload_pdf sends a file of at least the staged threshold and below the
\* ceiling through the staged path only (a pre-upload request, no request to
\* the parse endpoint), and a file below the threshold through the direct
\* path only.
C1_PathBySize ==
  (UploadDone("upload_pdf") /\ args.readable) =>
    /\ (args.size >= BigThreshold /\ args.size < SizeCeiling) =>
         ("parse/pdf" \notin Range(reqs) /\ "parse/preupload" \in Range(reqs))
    /\ args.size < BigThreshold =>
         ("parse/preupload" \notin Range(reqs) /\ "s3" \notin Range(reqs))

\* C2: an upload of a file at or above the ceiling, through upload_pdf or
\* through upload_pdf_big, ends on its first attempt with a permanent error
\* and has sent no request.
C2_CeilingRejects ==
  (pc = "done" /\ op \in {"upload_pdf", "upload_pdf_big"}
     /\ args.size >= SizeCeiling) =>
    /\ outcome.kind = "raise"
    /\ outcome.err \in {"FileError", "RequestError"}
    /\ reqs = <<>>
    /\ attempts = 1

\* C3: a call never ends on an attempt that met HTTP 429 unless the retry
\* budget is exhausted: while attempts are left, a 429 is followed by another
\* attempt.
C3_RateLimitRetried ==
  (pc = "done" /\ (resp.status = 429 \/ last.s3 = 429)) =>
    (outcome.err = "RetryExhausted" /\ attempts = MaxAttempts)

\* C4: a permanent input error (oversized file, unreadable file, unsupported
\* conversion format) ends the call on its first attempt, and a terminal
\* business failure (job or conversion status "failed") ends the call on the
\* attempt that read it; neither is retried nor turned into retry exhaustion.
PermanentInput ==
  \/ op = "upload_pdf" /\ (args.size >= SizeCeiling \/ ~args.readable)
  \/ op = "upload_pdf_big" /\ ~args.readable
  \/ op = "convert_parse" /\ args.to \notin {"md", "tex", "docx"}

TerminalFailure ==
  /\ op \in {"uid_status", "convert_parse", "get_convert_result"}
  /\ resp.status = 200 /\ resp.json /\ resp.code = "success"
  /\ resp.st = "failed"

AllRateLimited == https # <<>> /\ \A i \in 1..Len(https) : https[i] = 429

C5_BoundedRetry ==
  /\ [](attempts <= MaxAttempts)
  /\ []((pc = "done" /\ AllRateLimited) =>
          (attempts = MaxAttempts /\ outcome.kind = "raise"
             /\ outcome.err = "RetryExhausted"))
  /\ ((pc = "running") ~> (pc = "done"))

C5_Witness ==
  /\ pc = "done" /\ AllRateLimited /\ attempts = MaxAttempts
  /\ outcome.err = "RetryExhausted"

\* the terminal state a finished poll reports to its caller
Reported ==
  IF outcome.kind = "return" /\ outcome.label = "Success" THEN "success"
  ELSE IF outcome.kind = "raise" /\ outcome.err = "RequestError"
          /\ outcome.msg = "Failed to deal with file!" THEN "failed"
  ELSE "none"

LaterPoll == pc = "done" /\ op = "uid_status" /\ seen[args.uid] # "none"

C8_FailedRaises ==
  (StatusRead /\ resp.st = "failed") =>
    /\ pc = "done" /\ outcome = last
    /\ last.kind = "raise" /\ last.err = "RequestError"

C8_Witness ==
  /\ StatusRead /\ resp.st = "failed" /\ pc = "done"
  /\ attempts = 1 /\ attempts < MaxAttempts /\ outcome.kind = "raise"

\* C9: a poll returns non-empty texts or locations only for service status
\* "success"; "processing" returns (data.progress, "Processing file", [], [])
\* and any other status but "failed" returns (data.progress, status, [], [])
\* and does not raise.
RawProgress == IF resp.progress = -1 THEN 0 ELSE resp.progress

C9_ResultsOnlyOnSuccess ==
  (StatusRead /\ resp.st # "success") =>
    /\ last.texts = <<>> /\ last.locations = <<>>
    /\ resp.st = "processing" =>
         (last.kind = "return" /\ last.progress = RawProgress
            /\ last.label = "Processing file")
    /\ resp.st \notin {"processing", "failed"} =>
         (last.kind = "return" /\ last.progress = RawProgress
            /\ last.label = resp.st)

C9_Witness ==
  /\ StatusRead /\ resp.st = "processing" /\ resp.data.pages # <<>>
  /\ resp.progress = 40 /\ pc = "done"
  /\ outcome.progress = 40 /\ outcome.texts = <<>>

\* C10: convert_parse with a target format outside {md, tex, docx} sends no
\* request on any attempt: every attempt raises the local ValueError.
C10_FormatCheckedFirst ==
  (op = "convert_parse" /\ args.to \notin {"md", "tex", "docx"}) =>
    /\ reqs = <<>>
    /\ attempts > 0 => (last.kind = "raise" /\ last.err = "ValueError"
                          /\ resp = NoResp)

C10_Witness ==
  /\ pc = "done" /\ op = "convert_parse" /\ args.to = "pdf"
  /\ reqs = <<>> /\ outcome.err = "ValueError"

ConvertOps == {"convert_parse", "get_convert_result"}

\* the last attempt of a conversion call sent its request and met answer resp
ConvertAnswered == op \in ConvertOps /\ attempts > 0 /\ last.reqs # <<>>

\* C11: on HTTP 200, convert_parse and get_convert_result give exactly one of
\* three outcomes fixed by the conversion status: "processing" returns an
\* empty location, "success" returns a non-empty location, any other status
\* raises the non-retryable RequestError that reports the uid; any other HTTP
\* status raises the generic request failure.
C11_TriState ==
  ConvertAnswered =>
    /\ (resp.status = 200 /\ resp.st = "processing") =>
         (last.kind = "return" /\ last.label = "Processing" /\ last.url = "")
    /\ (resp.status = 200 /\ resp.st = "success") =>
         (last.kind = "return" /\ last.label = "Success" /\ last.url # "")
    /\ (resp.status = 200 /\ resp.st \notin {"processing", "success"}) =>
         (last.kind = "raise" /\ last.err = "RequestError"
            /\ last.uid = args.uid /\ pc = "done")
    /\ resp.status \notin {0, 200} =>
         (last.kind = "raise" /\ last.err = "Exception")

UploadOps == {"upload_pdf", "upload_pdf_big"}

\* C12: the staged upload returns a uid only when the pre-upload answer was
\* HTTP 200 with a success code and the object storage answered 204; for any
\* other answer of the object storage the attempt raises and hands no uid on.
C12_UidOnlyAfter204 ==
  (op = "upload_pdf_big" /\ attempts > 0) =>
    /\ last.kind = "return" =>
         (resp.status = 200 /\ resp.code = "success" /\ last.s3 = 204
            /\ last.uid = resp.uid /\ last.uid # "")
    /\ last.s3 \notin {-1, 204} => (last.kind = "raise" /\ last.uid = "")
    /\ (pc = "done" /\ last.s3 # 204) => outcome.uid = ""

C12_Witness ==
  /\ pc = "done" /\ op = "upload_pdf_big" /\ last.s3 = 200
  /\ resp.code = "success" /\ resp.uid # ""
  /\ outcome.kind = "raise" /\ outcome.uid = ""

\* C13: on both upload paths an attempt ends in the outcome its answer fixes:
\* HTTP 429 gives the retryable RateLimit, an error code in an HTTP 200 body
\* gives the business error of the classification, any other non-200 status
\* gives the generic failure (HTTP 400, the malformed request, is the business
\* error of the error taxonomy and is left out here), and a file that cannot
\* be read gives FileError before any request.
C13_UploadOutcomes ==
  (op \in UploadOps /\ attempts > 0) =>
    /\ (last.reqs # <<>> /\ resp.status = 429) =>
         (last.kind = "raise" /\ last.err = "RateLimit")
    /\ (last.reqs # <<>> /\ resp.status = 200
          /\ resp.code \notin {"", "success"}) =>
         (last.kind = "raise" /\ last.err \in {"RequestError", "RateLimit"}
            /\ last.msg = resp.code)
    /\ (last.reqs # <<>> /\ resp.status \notin {0, 200, 400, 429}) =>
         (last.kind = "raise" /\ last.err = "Exception")
    /\ (~args.readable /\ last.msg = "Open file error!") =>
         (last.kind = "raise" /\ last.err = "FileError" /\ reqs = <<>>)

\* the input is rejected by a local check, before any request
LocalReject ==
  \/ op = "upload_pdf" /\ (args.size >= SizeCeiling \/ ~args.readable)
  \/ op = "upload_pdf_big" /\ (args.size < BigThreshold \/ ~args.readable)
  \/ op = "convert_parse" /\ args.to \notin {"md", "tex", "docx"}

PreUploadOk == resp.status = 200 /\ resp.code = "success" /\ resp.hasUid

NetOps == UploadOps \cup ConvertOps \cup {"uid_status"}

\* C18 as stated: a call that gets past its local checks sends exactly one
\* request, the staged upload exactly two (the second only after a pre-upload
\* answer of HTTP 200 with a success code).
C18_OneRoundTripPerCall ==
  (pc = "done" /\ op \in NetOps /\ ~LocalReject) =>
    IF op = "upload_pdf_big"
    THEN reqs = (IF PreUploadOk THEN <<"parse/preupload", "s3">>
                 ELSE <<"parse/preupload">>)
    ELSE Len(reqs) = 1

\* C18, amended: every attempt sends exactly one request, none when a local
\* check rejects the input; an attempt of the staged upload sends the
\* pre-upload request and then, only when that was answered HTTP 200 with a
\* success code and a uid, the transmission to the object storage; a call
\* sends this once per attempt of the retry wrapper.
C18_RoundTripsPerAttempt ==
  (op \in NetOps /\ attempts > 0) =>
    /\ (last.reqs = <<>>) <=> LocalReject
    /\ op # "upload_pdf_big" => Len(last.reqs) <= 1
    /\ op = "upload_pdf_big" =>
         /\ last.reqs \in {<<>>, <<"parse/preupload">>,
                           <<"parse/preupload", "s3">>}
         /\ ("s3" \in Range(last.reqs)) <=> (~LocalReject /\ PreUploadOk)
         /\ (last.s3 # -1) <=> ("s3" \in Range(last.reqs))
    /\ Len(reqs) >= (IF LocalReject THEN 0 ELSE attempts)
    /\ Len(reqs) <= (IF op = "upload_pdf_big" THEN 2 * attempts ELSE attempts)

C18_Witness ==
  /\ pc = "done" /\ op = "upload_pdf_big" /\ attempts = 2
  /\ reqs = <<"parse/preupload", "parse/preupload", "s3">>
  /\ outcome.kind = "return"

\* C19: on every JSON endpoint an envelope whose code is present and is no
\* success code is classified by code_check before data is read: the attempt
\* raises the error of the classification, naming the code.
C19_CodeBeforeData ==
  (op \in NetOps /\ attempts > 0 /\ last.reqs # <<>>
     /\ resp.status = 200 /\ resp.json /\ resp.code \notin {"", "success"}) =>
    (last.kind = "raise" /\ last.err \in {"RequestError", "RateLimit"}
       /\ last.msg = resp.code)

ToolDone(o) == pc = "done" /\ op = o

\* the text of a page before decoding
RawText(page) == IF "md" \in page.fields THEN page.md ELSE <<>>

\* position i of text t starts an escaped delimiter of the set D
EscapedAt(t, i, D) == i < Len(t) /\ t[i] = "\\" /\ t[i + 1] \in D

\* what position i of t contributes to the escaped text
Piece(t, i) ==
  IF EscapedAt(t, i, {"(", ")"}) THEN <<"$">>
  ELSE IF EscapedAt(t, i, {"[", "]"}) THEN <<"$", "$">>
  ELSE IF i > 1 /\ EscapedAt(t, i - 1, {"(", ")", "[", "]"}) THEN <<>>
  ELSE <<t[i]>>

RECURSIVE Pieces(_, _)
Pieces(t, i) == IF i > Len(t) THEN <<>> ELSE Piece(t, i) \o Pieces(t, i + 1)

\* C14: with the escape flag on, the text of every page has each escaped
\* parenthesis replaced by one dollar sign and each escaped bracket by two,
\* and no escaped delimiter is left; with the flag off the text is the page's
\* text unchanged.
C14_EscapeAllOccurrences ==
  (ToolDone("decode_data") /\ outcome.kind = "return") =>
    \A i \in 1..Len(outcome.texts) :
      LET raw == RawText(args.data.pages[i])
          out == outcome.texts[i]
      IN IF args.convert
         THEN /\ out = Pieces(raw, 1)
              /\ \A j \in 1..Len(out) :
                   ~EscapedAt(out, j, {"(", ")", "[", "]"})
         ELSE out = raw

C14_Witness ==
  /\ ToolDone("decode_data") /\ args.convert /\ Len(outcome.texts) = 1
  /\ RawText(args.data.pages[1]) = <<"\\", "(", "\\", "]">>
  /\ outcome.texts[1] = <<"$", "$", "$">>

\* C15: decoding an answer without the result/pages structure (no result, a
\* result without pages, a result that is no mapping) returns two empty
\* sequences and raises nothing.
C15_MalformedGivesEmpty ==
  (ToolDone("decode_data")
     /\ (~args.data.hasResult \/ args.data.resultType # "dict"
           \/ ~args.data.hasPages)) =>
    (outcome.kind = "return" /\ outcome.texts = <<>>
       /\ outcome.locations = <<>>)

\* a file of the call raised an error
FileRaised(f) == ~f.readable

\* C16: the third element mds_replace_imgs returns is True exactly when no
\* markdown file under the path raised an error.
C16_FlagMeansAllProcessed ==
  (ToolDone("mds_replace_imgs") /\ outcome.kind = "return") =>
    (outcome.flag <=>
       \A i \in 1..Len(args.mdfiles) : ~FileRaised(args.mdfiles[i]))

\* a link whose image was fetched and stored under a name with an extension
Downloaded(link) == link.http /\ link.answer = "ok" /\ link.ctype

C20_OneEntryPerPage ==
  (ToolDone("decode_data")
     /\ args.data.hasResult /\ args.data.resultType = "dict"
     /\ args.data.hasPages) =>
    LET pages == args.data.pages IN
    /\ outcome.kind = "return"
    /\ Len(outcome.texts) = Len(pages)
    /\ Len(outcome.locations) = Len(pages)
    /\ \A i \in 1..Len(pages) :
         LET p == pages[i]  m == outcome.locations[i] IN
         /\ "md" \notin p.fields => outcome.texts[i] = <<>>
         /\ ("md" \in p.fields /\ ~args.convert) => outcome.texts[i] = p.md
         /\ m.url = (IF "url" \in p.fields THEN p.url ELSE "")
         /\ m.page_idx = (IF "page_idx" \in p.fields THEN p.page_idx ELSE 0)
         /\ m.page_width =
              (IF "page_width" \in p.fields THEN p.page_width ELSE 0)
         /\ m.page_height =
              (IF "page_height" \in p.fields THEN p.page_height ELSE 0)

C20_Witness ==
  /\ ToolDone("decode_data") /\ outcome.kind = "return"
  /\ Len(args.data.pages) = 2
  /\ args.data.pages[1].fields = {"url"}
  /\ args.data.pages[2].fields = {"md", "page_width"}
  /\ outcome.texts[1] = <<>> /\ outcome.texts[2] # <<>>
  /\ outcome.locations[1] =
       [url |-> "http://p/1", page_idx |-> 0, page_width |-> 0,
        page_height |-> 0]
  /\ outcome.locations[2] =
       [url |-> "", page_idx |-> 0, page_width |-> 602, page_height |-> 0]

\* C23: the content md_replace_imgs writes back is the same for every order in
\* which the downloads complete, and in it exactly the downloaded links are
\* replaced, every failed or skipped link standing as it was.
C23_ContentOrderIndependent ==
  (ToolDone("md_replace_imgs") /\ outcome.kind = "return") =>
    /\ \A order \in Orders(Len(args.links)) :
         md_replace_imgs(args.replace, args.readable, args.links,
                         order).content = outcome.content
    /\ \A k \in 1..Len(outcome.content) :
         (outcome.content[k] # args.links[k].text)
           <=> Downloaded(args.links[k])

\* what the caller's value of a parameter is on the wire
Wire(o) ==
  IF o = "uuid2file" THEN args.to
  ELSE IF args.replace = "True" THEN "true" ELSE "false"

\* C21: every request a legacy call sends to its own endpoint, the first and
\* each one after an HTTP 429, carries the caller's value of the parameter:
\* the export format for uuid2file, img_correction for pic2file, ocr for
\* pdf2file.
C21_RetrySameParameters ==
  op \in LegacyOps =>
    \A i \in 1..Len(reqs) : reqs[i].fn = op => reqs[i].param = Wire(op)

\* C22: a legacy call answers every HTTP 429 by another attempt: it is over
\* only after an attempt that met no 429, and it has no outcome that gives
\* the retrying up.
C22_Only429Retries ==
  op \in LegacyOps =>
    /\ (pc = "done") => resp.status # 429
    /\ (pc = "running" /\ attempts > 0 /\ last.reqs # <<>>
          /\ Top.fn = stack[1].fn) => resp.status = 429

====
